---- MODULE Spec2Model ----
(***************************************************************************)
(* Model of yt-rag/app/services/embedding.py: the EmbeddingService and     *)
(* ChatService singletons, their construction at module import, and the    *)
(* three operations embed_texts, embed_query and generate_answer invoked   *)
(* by concurrent callers.  A Python string is a sequence of tokens; the    *)
(* fixed literals of the source are single tokens, data strings are        *)
(* sequences of one-character tokens.                                      *)
(***************************************************************************)
EXTENDS Integers, Sequences, FiniteSets, TLC

VARIABLES settings, module, import_error, embedding_service, chat_service,
          pc, op, args, calls, resp, outcome

vars == <<settings, module, import_error, embedding_service, chat_service,
          pc, op, args, calls, resp, outcome>>

(* ------------------------------ bounds --------------------------------- *)
MaxTexts == 2
MaxBlocks == 2

Callers == {"c1", "c2"}

(* --------------------------- Python values ----------------------------- *)
PyNone == [t |-> "none"]
PyStr(s) == [t |-> "str", s |-> s]
PyInt(n) == [t |-> "int", n |-> n]

Digit(d) == <<"0", "1", "2", "3", "4", "5", "6", "7", "8", "9">>[d + 1]

RECURSIVE IntToStr(_)
IntToStr(n) == IF n < 10 THEN <<Digit(n)>>
               ELSE IntToStr(n \div 10) \o <<Digit(n % 10)>>

\* str(v) / format(v, "") as used by the f-strings
Str(v) == CASE v.t = "str" -> v.s
            [] v.t = "int" -> IntToStr(v.n)
            [] v.t = "none" -> <<"None">>

\* truthiness of the operand of `or`
Truthy(v) == CASE v.t = "str" -> v.s # <<>>
               [] v.t = "int" -> v.n # 0
               [] v.t = "none" -> FALSE

\* dict.get(key, default)
Get(d, key, default) == IF key \in DOMAIN d THEN d[key] ELSE default

\* str.join
RECURSIVE Join(_, _)
Join(sep, parts) == IF parts = <<>> THEN <<>>
                    ELSE IF Len(parts) = 1 THEN parts[1]
                    ELSE parts[1] \o sep \o Join(sep, Tail(parts))

Return(v) == [kind |-> "return", value |-> v]
Raise(e) == [kind |-> "raise", exc |-> e]
NoOutcome == [kind |-> "none"]
NoResponse == [kind |-> "none"]
NoArgs == [kind |-> "none"]
NoObject == [exists |-> FALSE]

Exc(type, msg) == [type |-> type, msg |-> msg]

(* ------------------------------ settings ------------------------------- *)
ProviderValues == {"openai", "anthropic", "cohere", "OpenAI"}
TemperatureValues == {0, 1}

SettingsValues ==
  { [ai_provider |-> p, temperature |-> t,
     openai_embed_model |-> "text-embedding-3-small",
     openai_chat_model |-> "gpt-4o",
     anthropic_chat_model |-> "claude-3-5-sonnet"] :
    p \in ProviderValues, t \in TemperatureValues }

(* ---------------------------- input domains ---------------------------- *)
TextValues == {<<>>, <<"x">>, <<"y">>}

RECURSIVE SeqsUpTo(_, _)
SeqsUpTo(S, n) == IF n = 0 THEN {<<>>}
                  ELSE LET R == SeqsUpTo(S, n - 1)
                       IN R \cup {Append(r, s) : r \in {q \in R : Len(q) = n - 1}, s \in S}

TextsValues == SeqsUpTo(TextValues, MaxTexts)

(* ------------------------- embedding vendor ---------------------------- *)
\* the vector the embedding vendor assigns to a text
Vec(text) == IF text = <<>> THEN <<0, 0>>
             ELSE IF text[1] = "x" THEN <<Len(text), 1>> ELSE <<Len(text), 2>>

\* response.data of embeddings.create for a request: one item per input, in order
VendorEmbeddingData(request) ==
  [i \in 1..Len(request.input) |-> [index |-> i - 1, embedding |-> Vec(request.input[i])]]

VendorErrors == { Exc("APIConnectionError", <<"Connection error.">>),
                  Exc("AuthenticationError", <<"Incorrect API key provided">>) }

(* --------------------------- EmbeddingService -------------------------- *)
EmbeddingService_init(s) ==
  [exists |-> TRUE, openai_client |-> "openai.OpenAI", embed_model |-> s.openai_embed_model]

\* the argument of openai_client.embeddings.create
EmbeddingRequest(self, texts) ==
  [api |-> "embeddings.create", model |-> self.embed_model, input |-> texts]

\* the vendor calls embed_texts issues before it waits for an answer
EmbedTextsCalls(self, texts) == <<EmbeddingRequest(self, texts)>>

\* variant: the vectors collected in reverse
ExtractEmbeddings_Reversed(data) == [i \in 1..Len(data) |-> data[Len(data) + 1 - i].embedding]

\* [item.embedding for item in response.data]
ExtractEmbeddings(data) == [i \in 1..Len(data) |-> data[i].embedding]

\* variant: the failure wrapped in a new error
EmbedTextsOnException_Wrapped(e) ==
  Raise(Exc("RuntimeError", <<"Failed to generate embeddings: ">> \o e.msg))

\* except Exception as e: logger.error(...); raise
EmbedTextsOnException(e) == Raise(e)

\* embed_texts after the vendor call answered `response`
EmbedTextsFinish(response) ==
  IF response.kind = "raise" THEN EmbedTextsOnException(response.exc)
  ELSE Return(ExtractEmbeddings(response.data))

\* the calls of an embed_texts invocation once its vendor call failed: the
\* except block issues none
EmbedTextsCallsAfterFailure(issued) == issued

\* embed_query: embeddings = await self.embed_texts([query]); return embeddings[0]
EmbedQueryArgs(query) == <<query>>

\* variant: a failure answered with a zero vector
EmbedQueryFinish_ZeroOnFailure(inner) ==
  IF inner.kind = "raise" THEN Return(<<0, 0>>) ELSE Return(inner.value[1])

EmbedQueryFinish(inner) ==
  IF inner.kind = "raise" THEN inner
  ELSE IF Len(inner.value) = 0
       THEN Raise(Exc("IndexError", <<"list index out of range">>))
       ELSE Return(inner.value[1])

(* ----------------------------- ChatService ----------------------------- *)
SYSTEM_PROMPT == <<"You are a helpful AI assistant for customer support ...">>
FALLBACK_ANSWER == <<"I couldn't generate an answer.">>
ERROR_PREFIX == <<"I encountered an error while processing your question: ">>
MAX_TOKENS == 1000

QueryValues == {<<>>, <<"Q">>}

\* a context block: a dict (every one carries metadata the service ignores),
\* or a value that is not a dict
Dict(d) == [kind |-> "dict", d |-> d]
NotADict == [kind |-> "NoneType"]

BlockValues ==
  {Dict([source |-> "faq.md"])}
  \cup {Dict([source |-> "faq.md", chunk_id |-> PyStr(<<"a">>), text |-> PyStr(<<"T">>)])}
  \cup {Dict([source |-> "faq.md", chunk_id |-> PyInt(12), text |-> PyStr(<<>>)])}
  \cup {Dict([source |-> "faq.md", chunk_id |-> PyStr(<<"b">>)])}
  \cup {Dict([source |-> "faq.md", text |-> PyStr(<<"T">>)])}
  \cup {NotADict}

ContextValues == SeqsUpTo(BlockValues, MaxBlocks)

\* variant: an unknown provider falls back to openai
ChatService_init_DefaultOpenAI(s) ==
  IF s.ai_provider = "anthropic"
  THEN Return([exists |-> TRUE, provider |-> s.ai_provider,
               client |-> "anthropic.Anthropic", model |-> s.anthropic_chat_model])
  ELSE Return([exists |-> TRUE, provider |-> "openai",
               client |-> "openai.OpenAI", model |-> s.openai_chat_model])

\* ChatService.__init__: the instance, or the exception that ends construction
ChatService_init(s) ==
  IF s.ai_provider = "openai"
  THEN Return([exists |-> TRUE, provider |-> s.ai_provider,
               client |-> "openai.OpenAI", model |-> s.openai_chat_model])
  ELSE IF s.ai_provider = "anthropic"
  THEN Return([exists |-> TRUE, provider |-> s.ai_provider,
               client |-> "anthropic.Anthropic", model |-> s.anthropic_chat_model])
  ELSE Raise(Exc("ValueError", <<"Unsupported AI provider: ", s.ai_provider>>))

\* variant: block.get without the defaults
RenderBlock_NoDefaults(block) ==
  <<"[">> \o Str(Get(block.d, "chunk_id", PyNone)) \o <<"]", " ">>
          \o Str(Get(block.d, "text", PyNone))

\* f"[{chunk_id}] {text}" for one block
RenderBlock(block) ==
  <<"[">> \o Str(Get(block.d, "chunk_id", PyStr(<<"unknown">>))) \o <<"]", " ">>
          \o Str(Get(block.d, "text", PyStr(<<>>)))

\* the loop over context_blocks and the join: block.get on a value that is
\* not a dict raises AttributeError out of the loop
BuildContext(context_blocks) ==
  IF \E i \in 1..Len(context_blocks) : context_blocks[i].kind # "dict"
  THEN Raise(Exc("AttributeError", <<"'NoneType' object has no attribute 'get'">>))
  ELSE Return(Join(<<"\n\n">>,
                   [i \in 1..Len(context_blocks) |-> RenderBlock(context_blocks[i])]))

\* the user_prompt f-string
BuildUserPrompt(context, query) ==
  <<"Context:", "\n">> \o context \o <<"\n\n", "Question: ">> \o query
    \o <<"\n\n", "Please provide an answer based on the context above, including appropriate citations.">>

Message(role, content) == [role |-> role, content |-> content]

\* the keyword arguments of the vendor call of each branch
OpenAIRequest(self, system_prompt, user_prompt, temperature) ==
  [api |-> "chat.completions.create", model |-> self.model,
   messages |-> <<Message("system", system_prompt), Message("user", user_prompt)>>,
   temperature |-> temperature, max_tokens |-> MAX_TOKENS]

\* variant: the system instruction sent as a message
AnthropicRequest_SystemInlined(self, system_prompt, user_prompt, temperature) ==
  [api |-> "messages.create", model |-> self.model, max_tokens |-> MAX_TOKENS,
   temperature |-> temperature,
   messages |-> <<Message("system", system_prompt), Message("user", user_prompt)>>]

AnthropicRequest(self, system_prompt, user_prompt, temperature) ==
  [api |-> "messages.create", model |-> self.model, max_tokens |-> MAX_TOKENS,
   temperature |-> temperature, system |-> system_prompt,
   messages |-> <<Message("user", user_prompt)>>]

\* the vendor calls generate_answer issues inside its try block
GenerateAnswerCalls(self, system_prompt, user_prompt, temperature) ==
  IF self.provider = "openai"
  THEN <<OpenAIRequest(self, system_prompt, user_prompt, temperature)>>
  ELSE IF self.provider = "anthropic"
  THEN <<AnthropicRequest(self, system_prompt, user_prompt, temperature)>>
  ELSE <<>>

\* f"I encountered an error while processing your question: {str(e)}"
ErrorAnswer(e) == ERROR_PREFIX \o e.msg

\* answer or "I couldn't generate an answer."
AnswerOrFallback(answer) == IF Truthy(answer) THEN Str(answer) ELSE FALLBACK_ANSWER

IndexError == Exc("IndexError", <<"list index out of range">>)

\* response.choices[0].message.content / response.content[0].text
ExtractAnswer(self, response) ==
  IF self.provider = "openai"
  THEN IF Len(response.choices) = 0 THEN Raise(IndexError)
       ELSE Return(response.choices[1].message.content)
  ELSE IF Len(response.content) = 0 THEN Raise(IndexError)
       ELSE Return(response.content[1].text)

\* the try block of generate_answer once the vendor call answered `response`
GenerateAnswerFinish(self, response) ==
  IF response.kind = "raise" THEN Return(ErrorAnswer(response.exc))
  ELSE LET answer == ExtractAnswer(self, response)
       IN IF answer.kind = "raise" THEN Return(ErrorAnswer(answer.exc))
          ELSE Return(AnswerOrFallback(answer.value))

\* variant: the failed call issued once more
GenerateAnswerCallsAfterFailure_Retry(issued) == issued \o issued

\* the calls of a generate_answer invocation once its vendor call failed: the
\* except block issues none
GenerateAnswerCallsAfterFailure(issued) == issued

\* variant: the method rebinds the provider
ChatServiceAfter_SwitchProvider(self) ==
  [self EXCEPT !.provider = "anthropic", !.client = "anthropic.Anthropic"]

\* the instance fields after an invocation of generate_answer / embed_texts:
\* neither method assigns to self
ChatServiceAfter(self) == self
EmbeddingServiceAfter(self) == self

(* ---------------------------- chat vendors ----------------------------- *)
OpenAIResponses ==
  { [kind |-> "ok", choices |-> ch] :
    ch \in {<<>>} \cup { <<[message |-> [content |-> v]]>> :
                         v \in {PyNone, PyStr(<<>>), PyStr(<<"A", " ", "[a]">>)} } }

AnthropicResponses ==
  { [kind |-> "ok", content |-> ct] :
    ct \in {<<>>} \cup { <<[type |-> "text", text |-> v]>> :
                         v \in {PyStr(<<>>), PyStr(<<"A", " ", "[a]">>)} } }

VendorFailures == { [kind |-> "raise", exc |-> e] : e \in VendorErrors }

ChatResponses(request) ==
  (IF request.api = "chat.completions.create" THEN OpenAIResponses ELSE AnthropicResponses)
  \cup VendorFailures

EmbeddingResponses(request) ==
  {[kind |-> "ok", data |-> VendorEmbeddingData(request)]} \cup VendorFailures

(* ------------------------------- state --------------------------------- *)
Init ==
  /\ settings \in SettingsValues
  /\ module = "importing"
  /\ import_error = NoOutcome
  /\ embedding_service = NoObject
  /\ chat_service = NoObject
  /\ pc = [c \in Callers |-> "idle"]
  /\ op = [c \in Callers |-> "none"]
  /\ args = [c \in Callers |-> NoArgs]
  /\ calls = [c \in Callers |-> <<>>]
  /\ resp = [c \in Callers |-> NoResponse]
  /\ outcome = [c \in Callers |-> NoOutcome]

\* import of the module: the two global service instances are constructed in
\* order; an exception out of ChatService() fails the import and leaves no
\* module object behind
ImportModule ==
  /\ module = "importing"
  /\ LET built == ChatService_init(settings)
     IN IF built.kind = "return"
        THEN /\ module' = "loaded"
             /\ embedding_service' = EmbeddingService_init(settings)
             /\ chat_service' = built.value
             /\ UNCHANGED import_error
        ELSE /\ module' = "import_failed"
             /\ import_error' = built
             /\ UNCHANGED <<embedding_service, chat_service>>
  /\ UNCHANGED <<settings, pc, op, args, calls, resp, outcome>>

\* embed_texts up to the blocking vendor call
EmbedTextsCall(c, texts) ==
  /\ module = "loaded" /\ pc[c] = "idle"
  /\ op' = [op EXCEPT ![c] = "embed_texts"]
  /\ args' = [args EXCEPT ![c] = [texts |-> texts]]
  /\ calls' = [calls EXCEPT ![c] = EmbedTextsCalls(embedding_service, texts)]
  /\ pc' = [pc EXCEPT ![c] = "waiting"]
  /\ UNCHANGED <<settings, module, import_error, embedding_service, chat_service, resp, outcome>>

\* embed_query up to the blocking vendor call of the embed_texts it awaits
EmbedQueryCall(c, query) ==
  /\ module = "loaded" /\ pc[c] = "idle"
  /\ op' = [op EXCEPT ![c] = "embed_query"]
  /\ args' = [args EXCEPT ![c] = [query |-> query]]
  /\ calls' = [calls EXCEPT ![c] = EmbedTextsCalls(embedding_service, EmbedQueryArgs(query))]
  /\ pc' = [pc EXCEPT ![c] = "waiting"]
  /\ UNCHANGED <<settings, module, import_error, embedding_service, chat_service, resp, outcome>>

\* the embedding vendor answers or fails; embed_texts (and the embed_query
\* awaiting it) runs to its end
EmbedFinish(c, response) ==
  /\ pc[c] = "waiting" /\ op[c] \in {"embed_texts", "embed_query"}
  /\ resp' = [resp EXCEPT ![c] = response]
  /\ outcome' = [outcome EXCEPT ![c] =
       IF op[c] = "embed_texts" THEN EmbedTextsFinish(response)
       ELSE EmbedQueryFinish(EmbedTextsFinish(response))]
  /\ calls' = [calls EXCEPT ![c] =
       IF response.kind = "raise" THEN EmbedTextsCallsAfterFailure(calls[c]) ELSE calls[c]]
  /\ embedding_service' = EmbeddingServiceAfter(embedding_service)
  /\ pc' = [pc EXCEPT ![c] = "done"]
  /\ UNCHANGED <<settings, module, import_error, chat_service, op, args>>

\* generate_answer up to the blocking vendor call; an exception raised while
\* the prompt is built is raised outside the try block and leaves the method
GenerateAnswerCall(c, query, context_blocks) ==
  /\ module = "loaded" /\ pc[c] = "idle"
  /\ op' = [op EXCEPT ![c] = "generate_answer"]
  /\ args' = [args EXCEPT ![c] = [query |-> query, context_blocks |-> context_blocks]]
  /\ LET context == BuildContext(context_blocks)
     IN IF context.kind = "raise"
        THEN /\ outcome' = [outcome EXCEPT ![c] = context]
             /\ pc' = [pc EXCEPT ![c] = "done"]
             /\ chat_service' = ChatServiceAfter(chat_service)
             /\ UNCHANGED calls
        ELSE LET issued == GenerateAnswerCalls(chat_service, SYSTEM_PROMPT,
                                               BuildUserPrompt(context.value, query),
                                               settings.temperature)
             IN IF issued = <<>>
                THEN \* no branch taken: `answer` is unbound at the return
                     /\ outcome' = [outcome EXCEPT ![c] = Return(ErrorAnswer(
                          Exc("UnboundLocalError", <<"local variable 'answer' referenced before assignment">>)))]
                     /\ pc' = [pc EXCEPT ![c] = "done"]
                     /\ chat_service' = ChatServiceAfter(chat_service)
                     /\ UNCHANGED calls
                ELSE /\ calls' = [calls EXCEPT ![c] = issued]
                     /\ pc' = [pc EXCEPT ![c] = "waiting"]
                     /\ UNCHANGED <<outcome, chat_service>>
  /\ UNCHANGED <<settings, module, import_error, embedding_service, resp>>

\* the chat vendor answers or fails; the try block runs to its end
GenerateAnswerFinishes(c, response) ==
  /\ pc[c] = "waiting" /\ op[c] = "generate_answer"
  /\ resp' = [resp EXCEPT ![c] = response]
  /\ outcome' = [outcome EXCEPT ![c] = GenerateAnswerFinish(chat_service, response)]
  /\ calls' = [calls EXCEPT ![c] =
       IF response.kind = "raise" THEN GenerateAnswerCallsAfterFailure(calls[c]) ELSE calls[c]]
  /\ chat_service' = ChatServiceAfter(chat_service)
  /\ pc' = [pc EXCEPT ![c] = "done"]
  /\ UNCHANGED <<settings, module, import_error, embedding_service, op, args>>

\* the caller takes the result; it may invoke the singletons again
Release(c) ==
  /\ pc[c] = "done"
  /\ pc' = [pc EXCEPT ![c] = "idle"]
  /\ op' = [op EXCEPT ![c] = "none"]
  /\ args' = [args EXCEPT ![c] = NoArgs]
  /\ calls' = [calls EXCEPT ![c] = <<>>]
  /\ resp' = [resp EXCEPT ![c] = NoResponse]
  /\ outcome' = [outcome EXCEPT ![c] = NoOutcome]
  /\ UNCHANGED <<settings, module, import_error, embedding_service, chat_service>>

\* one caller at a time uses the singletons, with every input up to the bounds
Sequential == "c1"

Next ==
  \/ ImportModule
  \/ \E texts \in TextsValues : EmbedTextsCall(Sequential, texts)
  \/ \E query \in TextValues : EmbedQueryCall(Sequential, query)
  \/ \E c \in {d \in {Sequential} : pc[d] = "waiting" /\ op[d] # "generate_answer"} :
       \E response \in EmbeddingResponses(calls[c][1]) : EmbedFinish(c, response)
  \/ \E query \in QueryValues, context_blocks \in ContextValues :
       GenerateAnswerCall(Sequential, query, context_blocks)
  \/ \E c \in {d \in {Sequential} : pc[d] = "waiting" /\ op[d] = "generate_answer"} :
       \E response \in ChatResponses(calls[c][1]) : GenerateAnswerFinishes(c, response)
  \/ Release(Sequential)

Spec == Init /\ [][Next]_vars

\* every caller uses the singletons at once; the invocations interleave at
\* the vendor calls
ConcurrentTexts == {<<>>, <<<<"x">>>>, <<<<"y">>>>, <<<<"y">>, <<>>>>}
ConcurrentContexts ==
  {<<>>, <<NotADict>>,
   <<Dict([source |-> "faq.md"]),
     Dict([source |-> "faq.md", chunk_id |-> PyStr(<<"a">>), text |-> PyStr(<<"T">>)])>>}

ConcurrentNext ==
  \/ ImportModule
  \/ \E c \in Callers, texts \in ConcurrentTexts : EmbedTextsCall(c, texts)
  \/ \E c \in Callers, query \in TextValues : EmbedQueryCall(c, query)
  \/ \E c \in {d \in Callers : pc[d] = "waiting" /\ op[d] # "generate_answer"} :
       \E response \in EmbeddingResponses(calls[c][1]) : EmbedFinish(c, response)
  \/ \E c \in Callers, query \in QueryValues, context_blocks \in ConcurrentContexts :
       GenerateAnswerCall(c, query, context_blocks)
  \/ \E c \in {d \in Callers : pc[d] = "waiting" /\ op[d] = "generate_answer"} :
       \E response \in ChatResponses(calls[c][1]) : GenerateAnswerFinishes(c, response)
  \/ \E c \in Callers : Release(c)

SpecConcurrent == Init /\ [][ConcurrentNext]_vars

(* ------------------------------ properties ----------------------------- *)
Done(c, o) == pc[c] = "done" /\ op[c] = o
Supported == {"openai", "anthropic"}

\* C1: generate_answer always returns a string and never lets an exception
\* escape: a failure while the prompt is built or during the vendor call
\* becomes the error answer, the fixed prefix followed by the exception's text.
C1_NoExceptionEscapes ==
  \A c \in Callers : Done(c, "generate_answer") =>
    /\ outcome[c].kind = "return"
    /\ resp[c].kind = "raise" => outcome[c].value = ERROR_PREFIX \o resp[c].exc.msg

\* C2: when the vendor embedding call fails, embed_texts and embed_query end
\* by raising that same failure; nothing is returned and no other error
\* takes its place.
C2_EmbedFailureReraised ==
  \A c \in Callers :
    (pc[c] = "done" /\ op[c] \in {"embed_texts", "embed_query"} /\ resp[c].kind = "raise")
      => /\ outcome[c].kind = "raise"
         /\ outcome[c].exc = resp[c].exc

C2_Witness ==
  /\ Done("c1", "embed_texts") /\ resp["c1"].kind = "raise"
  /\ Done("c2", "embed_query") /\ resp["c2"].kind = "raise"

\* C3: a successful embed_texts returns as many vectors as it was given
\* texts, the i-th vector being the vendor's vector of the i-th text; no
\* texts give no vectors.
C3_EmbedManyLengthOrder ==
  \A c \in Callers : (Done(c, "embed_texts") /\ outcome[c].kind = "return") =>
    /\ Len(outcome[c].value) = Len(args[c].texts)
    /\ \A i \in 1..Len(args[c].texts) : outcome[c].value[i] = Vec(args[c].texts[i])
    /\ args[c].texts = <<>> => outcome[c].value = <<>>

C3_Witness ==
  /\ Done("c1", "embed_texts") /\ outcome["c1"].kind = "return"
  /\ args["c1"].texts = << <<"y">>, <<>> >>

\* an answer the vendor left empty or absent
EmptyOrAbsentAnswer(response) ==
  /\ response.kind = "ok"
  /\ IF "choices" \in DOMAIN response
     THEN \/ response.choices = <<>>
          \/ response.choices[1].message.content \in {PyNone, PyStr(<<>>)}
     ELSE \/ response.content = <<>>
          \/ response.content[1].text = PyStr(<<>>)

\* C4: whenever the vendor returns an empty or absent answer,
\* generate_answer returns exactly the fallback string.
C4_EmptyAnswerGivesFallback ==
  \A c \in Callers : (Done(c, "generate_answer") /\ EmptyOrAbsentAnswer(resp[c])) =>
    outcome[c] = Return(FALLBACK_ANSWER)

\* C5: with settings.ai_provider outside openai/anthropic the construction of
\* ChatService raises a ValueError naming the value, no instance exists, no
\* vendor call is made and no invocation is served; an instance that exists
\* has the configured, supported provider.
C5_UnsupportedProviderFailsConstruction ==
  /\ (module # "importing" /\ settings.ai_provider \notin Supported) =>
       /\ module = "import_failed"
       /\ import_error.kind = "raise"
       /\ import_error.exc.type = "ValueError"
       /\ \E i \in 1..Len(import_error.exc.msg) : import_error.exc.msg[i] = settings.ai_provider
       /\ chat_service = NoObject
       /\ \A c \in Callers : calls[c] = <<>> /\ pc[c] = "idle" /\ op[c] = "none"
  /\ chat_service.exists =>
       chat_service.provider \in Supported /\ chat_service.provider = settings.ai_provider
  /\ \A c \in Callers : op[c] = "generate_answer" =>
       chat_service.exists /\ chat_service.provider \in Supported

C5_Witness == module = "import_failed" /\ settings.ai_provider = "cohere"

\* C6: a generate_answer call goes to the vendor bound at construction in
\* that vendor's shape: openai gets a system message then a user message;
\* anthropic gets the system instruction as its own parameter and a single
\* user message; both get the bound model, the configured temperature and
\* max_tokens 1000.
C6_RequestShape ==
  \A c \in Callers : (op[c] = "generate_answer" /\ calls[c] # <<>>) =>
    LET r == calls[c][1]
    IN /\ Len(calls[c]) = 1
       /\ r.temperature = settings.temperature
       /\ r.max_tokens = 1000
       /\ IF settings.ai_provider = "openai"
          THEN /\ r.api = "chat.completions.create"
               /\ r.model = settings.openai_chat_model
               /\ "system" \notin DOMAIN r
               /\ Len(r.messages) = 2
               /\ r.messages[1].role = "system" /\ r.messages[1].content = SYSTEM_PROMPT
               /\ r.messages[2].role = "user"
          ELSE /\ settings.ai_provider = "anthropic"
               /\ r.api = "messages.create"
               /\ r.model = settings.anthropic_chat_model
               /\ "system" \in DOMAIN r /\ r.system = SYSTEM_PROMPT
               /\ Len(r.messages) = 1
               /\ r.messages[1].role = "user"

C6_Witness ==
  /\ settings.ai_provider = "anthropic" /\ settings.temperature = 1
  /\ op["c1"] = "generate_answer" /\ pc["c1"] = "waiting"

\* the line the specification asks for a block
ExpectedLine(block) ==
  <<"[">>
  \o (IF "chunk_id" \in DOMAIN block.d
      THEN (IF block.d.chunk_id.t = "int" THEN IntToStr(block.d.chunk_id.n) ELSE block.d.chunk_id.s)
      ELSE <<"unknown">>)
  \o <<"]", " ">>
  \o (IF "text" \in DOMAIN block.d THEN block.d.text.s ELSE <<>>)

RECURSIVE ExpectedContext(_)
ExpectedContext(blocks) ==
  IF blocks = <<>> THEN <<>>
  ELSE IF Len(blocks) = 1 THEN ExpectedLine(blocks[1])
  ELSE ExpectedContext(SubSeq(blocks, 1, Len(blocks) - 1)) \o <<"\n\n">>
         \o ExpectedLine(blocks[Len(blocks)])

UserPromptOf(request) == request.messages[Len(request.messages)].content

\* C7: the context in the user prompt is the lines "[<chunk_id>] <text>", one
\* per block in the given order, joined by a blank line, with "unknown" for a
\* missing chunk_id and nothing for a missing text; no blocks give the empty
\* context; "Question: <query>" follows the context section.
C7_ContextRendering ==
  \A c \in Callers : (op[c] = "generate_answer" /\ calls[c] # <<>>) =>
    LET user == UserPromptOf(calls[c][1])
        ctx == ExpectedContext(args[c].context_blocks)
        n == Len(ctx)
    IN /\ SubSeq(user, 1, 2) = <<"Context:", "\n">>
       /\ SubSeq(user, 3, 2 + n) = ctx
       /\ SubSeq(user, 3 + n, 4 + n + Len(args[c].query))
            = <<"\n\n", "Question: ">> \o args[c].query
       /\ Len(user) = n + Len(args[c].query) + 6

C7_Witness ==
  /\ op["c1"] = "generate_answer" /\ pc["c1"] = "waiting"
  /\ args["c1"].query = <<"Q">>
  /\ args["c1"].context_blocks =
       << Dict([source |-> "faq.md"]),
          Dict([source |-> "faq.md", chunk_id |-> PyInt(12), text |-> PyStr(<<>>)]) >>

\* C8: embed_query(x) gives what embed_texts([x]) gives, reduced to its only
\* element: under the same vendor answer it returns that element, and under
\* the same vendor failure it raises that failure.
C8_EmbedOneIsEmbedManySole ==
  \A c, d \in Callers :
    (/\ Done(c, "embed_query") /\ Done(d, "embed_texts")
     /\ args[d].texts = <<args[c].query>>
     /\ resp[c] = resp[d])
    => /\ calls[c] = calls[d]
       /\ IF outcome[d].kind = "raise"
          THEN outcome[c] = outcome[d] /\ outcome[c].exc = resp[c].exc
          ELSE /\ outcome[c].kind = "return"
               /\ Len(outcome[d].value) = 1
               /\ outcome[c].value = outcome[d].value[1]

C8_Witness ==
  /\ Done("c1", "embed_query") /\ Done("c2", "embed_texts")
  /\ args["c1"].query = <<"y">> /\ args["c2"].texts = << <<"y">> >>
  /\ resp["c1"] = resp["c2"] /\ outcome["c1"].kind = "return"

\* C9: every invocation of embed_texts, embed_query or generate_answer issues
\* exactly one vendor call (for embeddings one call carrying all the texts) and
\* ends after a failed call without a second one.
C9_ExactlyOneCall ==
  \A c \in Callers : pc[c] = "done" =>
    /\ Len(calls[c]) = 1
    /\ op[c] = "embed_texts" => calls[c][1].input = args[c].texts
    /\ op[c] = "embed_query" => calls[c][1].input = <<args[c].query>>

\* C9 as amended: an invocation issues exactly one vendor call, except a
\* generate_answer whose prompt construction raises, which issues none; the
\* embedding call carries all the texts; an invocation that is waiting has
\* issued its one call, and the vendor's answer or failure ends it with no
\* further call.
C9_OneCallUnlessPromptFails ==
  /\ [](\A c \in Callers :
          /\ pc[c] = "waiting" => Len(calls[c]) = 1
          /\ pc[c] = "done" =>
               /\ Len(calls[c]) = (IF op[c] = "generate_answer" /\ resp[c] = NoResponse
                                      /\ outcome[c].kind = "raise"
                                   THEN 0 ELSE 1)
               /\ op[c] = "embed_texts" => calls[c][1].input = args[c].texts
               /\ op[c] = "embed_query" => calls[c][1].input = <<args[c].query>>)
  /\ [][\A c \in Callers : pc[c] = "waiting" =>
          \/ pc'[c] = "waiting" /\ calls'[c] = calls[c]
          \/ pc'[c] = "done" /\ calls'[c] = calls[c] /\ resp'[c] # NoResponse]_vars

C9_Witness ==
  /\ Done("c1", "generate_answer") /\ resp["c1"].kind = "raise"
  /\ Len(calls["c1"]) = 1

\* what an invocation issues and returns when it runs alone on the instances
\* as constructed from the settings
AloneCalls(c) ==
  CASE op[c] = "embed_texts" ->
         EmbedTextsCalls(EmbeddingService_init(settings), args[c].texts)
    [] op[c] = "embed_query" ->
         EmbedTextsCalls(EmbeddingService_init(settings), <<args[c].query>>)
    [] op[c] = "generate_answer" ->
         LET context == BuildContext(args[c].context_blocks)
         IN IF context.kind = "raise" THEN <<>>
            ELSE GenerateAnswerCalls(ChatService_init(settings).value, SYSTEM_PROMPT,
                                     BuildUserPrompt(context.value, args[c].query),
                                     settings.temperature)

AloneOutcome(c) ==
  CASE op[c] = "embed_texts" -> EmbedTextsFinish(resp[c])
    [] op[c] = "embed_query" -> EmbedQueryFinish(EmbedTextsFinish(resp[c]))
    [] op[c] = "generate_answer" ->
         IF resp[c] = NoResponse THEN BuildContext(args[c].context_blocks)
         ELSE GenerateAnswerFinish(ChatService_init(settings).value, resp[c])

\* C10: once constructed, the fields of the two instances never change, and
\* under every interleaving an invocation issues the call and returns the
\* result it would when run alone with the same vendor answer.
C10_FieldsReadOnlyAndIsolation ==
  /\ [][module = "loaded" =>
          /\ embedding_service' = embedding_service
          /\ chat_service' = chat_service]_vars
  /\ [](module = "loaded" =>
          /\ embedding_service = EmbeddingService_init(settings)
          /\ chat_service = ChatService_init(settings).value)
  /\ [](\A c \in Callers :
          /\ pc[c] \in {"waiting", "done"} => calls[c] = AloneCalls(c)
          /\ pc[c] = "done" => outcome[c] = AloneOutcome(c))

C10_Witness ==
  /\ Done("c1", "generate_answer") /\ resp["c1"].kind = "raise"
  /\ Done("c2", "generate_answer") /\ resp["c2"].kind = "ok"
  /\ outcome["c2"].value = <<"A", " ", "[a]">>
  /\ args["c1"] # args["c2"]

====
